---- MODULE Spec2Model ----
(***************************************************************************)
(* OpenSpace session profile (src/src/scene/profile.cpp): the JSON codec   *)
(* of Profile, the 1.0 -> 1.1 migration, the asset mutations and the       *)
(* capture of the live property graph, as a state machine over one Profile *)
(* object.                                                                 *)
(*                                                                         *)
(* A nlohmann::json value is a record tagged by its kind in field t; an    *)
(* object is a function from its keys to values (nlohmann's object is a    *)
(* std::map).  A std::optional is [has |-> FALSE] or [has, val].  A number *)
(* (int or double) is an integer.  The text of a document is its tree:     *)
(* dump and parse of a well-formed tree are inverse to each other.         *)
(***************************************************************************)
EXTENDS Integers, Sequences, FiniteSets, TLC

VARIABLES profile, op, pre, result, text

vars == <<profile, op, pre, result, text>>

(***************************************************************************)
(* nlohmann::json values                                                   *)
(***************************************************************************)
JNull == [t |-> "null"]

JStr(s) == [t |-> "string", s |-> s]

JNum(n) == [t |-> "number", n |-> n]

JBool(b) == [t |-> "boolean", b |-> b]

JArr(a) == [t |-> "array", a |-> a]

JObj(o) == [t |-> "object", o |-> o]

EmptyObj == [k \in {} |-> JNull]

\* the object o with o[k] = v added or replaced
Put(o, k, v) == [y \in DOMAIN o \cup {k} |-> IF y = k THEN v ELSE o[y]]

\* j.find(key) != j.end(); find on a value that is no object returns end()
Has(j, key) == j.t = "object" /\ key \in DOMAIN j.o

\* j[key] where the key was checked before
Get(j, key) == IF Has(j, key) THEN j.o[key] ELSE JNull

\* the keys j.items() iterates over: an object's keys, an array's indices,
\* nothing for null, and the single key "" for any other value
Items(j) ==
    CASE j.t = "object" -> DOMAIN j.o
      [] j.t = "array" -> {ToString(i - 1) : i \in 1..Len(j.a)}
      [] j.t = "null" -> {}
      [] OTHER -> {""}

None == [has |-> FALSE]

Some(v) == [has |-> TRUE, val |-> v]

(***************************************************************************)
(* Exceptions and results.  A message is the tuple of the pieces that      *)
(* fmt::format joins.                                                      *)
(***************************************************************************)
NoErr == [type |-> "none"]

ParsingError(msg) == [type |-> "ParsingError", severity |-> "Error", msg |-> msg]

JsonException(msg) == [type |-> "json.exception", msg |-> msg]

RuntimeError(msg) == [type |-> "RuntimeError", msg |-> msg]

Ok(v, l) == [ok |-> TRUE, val |-> v, log |-> l]

Err(e) == [ok |-> FALSE, err |-> e]

\* the first exception thrown by a sequence of checks
FirstErr(es) ==
    LET bad == {i \in 1..Len(es) : es[i] # NoErr}
    IN  IF bad = {} THEN NoErr
        ELSE es[CHOOSE i \in bad : \A k \in bad : i <= k]

TypeName(kind) ==
    CASE kind = "string" -> "a string"
      [] kind = "number" -> "a number"
      [] kind = "object" -> "an object"
      [] kind = "array" -> "an array"
      [] kind = "boolean" -> "a boolean"

\* mutant: the message for a missing field names the section only
checkValue_noKey(j, key, kind, keyPrefix, isOptional) ==
    IF ~Has(j, key)
    THEN IF ~isOptional
         THEN ParsingError(<<"'", keyPrefix, "' field is missing">>)
         ELSE NoErr
    ELSE IF j.o[key].t # kind
         THEN ParsingError(<<"'", keyPrefix, ".", key, "' must be ", TypeName(kind)>>)
         ELSE NoErr

checkValue(j, key, kind, keyPrefix, isOptional) ==
    IF ~Has(j, key)
    THEN IF ~isOptional
         THEN ParsingError(<<"'", keyPrefix, ".", key, "' field is missing">>)
         ELSE NoErr
    ELSE IF j.o[key].t # kind
         THEN ParsingError(<<"'", keyPrefix, ".", key, "' must be ", TypeName(kind)>>)
         ELSE NoErr

\* the LINFOC lines of checkExtraKeys, each as <<key, prefix>>
checkExtraKeys(j, prefix, allowedKeys) ==
    {<<key, prefix>> : key \in Items(j) \ allowedKeys}

\* get<std::string>(), get<double>(), get<bool>() of a value
get_string(j) ==
    IF j.t = "string" THEN Ok(j.s, {})
    ELSE Err(JsonException(<<"type must be string, but is ", j.t>>))

get_number(j) ==
    IF j.t = "number" THEN Ok(j.n, {})
    ELSE Err(JsonException(<<"type must be number, but is ", j.t>>))

\* get<std::vector<T>>() where Elem is from_json of T
get_vector(j, Elem(_)) ==
    IF j.t # "array"
    THEN Err(JsonException(<<"type must be array, but is ", j.t>>))
    ELSE LET rs == [i \in 1..Len(j.a) |-> Elem(j.a[i])]
             bad == {i \in 1..Len(j.a) : ~rs[i].ok}
         IN  IF bad # {}
             THEN Err(rs[CHOOSE i \in bad : \A k \in bad : i <= k].err)
             ELSE Ok([i \in 1..Len(j.a) |-> rs[i].val],
                     UNION {rs[i].log : i \in 1..Len(j.a)})

\* an optional string member
OptString(j, key) == IF Has(j, key) THEN Some(j.o[key].s) ELSE None

OptNumber(j, key) == IF Has(j, key) THEN Some(j.o[key].n) ELSE None

\* an object built by assigning, in order, the present members of ms
\* (a sequence of <<key, optional value>>); null when nothing is assigned
Assign(ms) ==
    LET present == {i \in 1..Len(ms) : ms[i][2].has}
    IN  IF present = {} THEN JNull
        ELSE JObj([k \in {ms[i][1] : i \in present} |->
                     (ms[CHOOSE i \in present : ms[i][1] = k][2]).val])

(***************************************************************************)
(* Current version: to_json / from_json of the section types               *)
(***************************************************************************)
CurrentVersion == [major |-> 1, minor |-> 1]

to_json_Version(v) ==
    JObj([major |-> JNum(v.major), minor |-> JNum(v.minor)])

from_json_Version(j) ==
    LET e == FirstErr(<<checkValue(j, "major", "number", "version", FALSE),
                        checkValue(j, "minor", "number", "version", FALSE)>>)
    IN  IF e # NoErr THEN Err(e)
        ELSE Ok([major |-> j.o["major"].n, minor |-> j.o["minor"].n],
                checkExtraKeys(j, "version", {"major", "minor"}))

to_json_Module(v) ==
    Assign(<<<<"name", Some(JStr(v.name))>>,
             <<"loadedInstruction",
               IF v.loadedInstruction.has
               THEN Some(JStr(v.loadedInstruction.val)) ELSE None>>,
             <<"notLoadedInstruction",
               IF v.notLoadedInstruction.has
               THEN Some(JStr(v.notLoadedInstruction.val)) ELSE None>>>>)

from_json_Module(j) ==
    LET e == FirstErr(<<
            checkValue(j, "name", "string", "module", FALSE),
            checkValue(j, "loadedInstruction", "string", "module", TRUE),
            checkValue(j, "notLoadedInstruction", "string", "module", TRUE)>>)
    IN  IF e # NoErr THEN Err(e)
        ELSE Ok([name |-> j.o["name"].s,
                 loadedInstruction |-> OptString(j, "loadedInstruction"),
                 notLoadedInstruction |-> OptString(j, "notLoadedInstruction")],
                checkExtraKeys(j, "module",
                    {"name", "loadedInstruction", "notLoadedInstruction"}))

MetaKeys == {"name", "version", "description", "author", "url", "license"}

OptJStr(o) == IF o.has THEN Some(JStr(o.val)) ELSE None

to_json_Meta(v) ==
    Assign(<<<<"name", OptJStr(v.name)>>,
             <<"version", OptJStr(v.version)>>,
             <<"description", OptJStr(v.description)>>,
             <<"author", OptJStr(v.author)>>,
             <<"url", OptJStr(v.url)>>,
             <<"license", OptJStr(v.license)>>>>)

from_json_Meta(j) ==
    LET e == FirstErr(<<
            checkValue(j, "name", "string", "meta", TRUE),
            checkValue(j, "version", "string", "meta", TRUE),
            checkValue(j, "description", "string", "meta", TRUE),
            checkValue(j, "author", "string", "meta", TRUE),
            checkValue(j, "url", "string", "meta", TRUE),
            checkValue(j, "license", "string", "meta", TRUE)>>)
    IN  IF e # NoErr THEN Err(e)
        ELSE Ok([name |-> OptString(j, "name"),
                 version |-> OptString(j, "version"),
                 description |-> OptString(j, "description"),
                 author |-> OptString(j, "author"),
                 url |-> OptString(j, "url"),
                 license |-> OptString(j, "license")],
                checkExtraKeys(j, "meta", MetaKeys))

to_json_SetType(v) ==
    CASE v = "SetPropertyValue" -> JStr("setPropertyValue")
      [] v = "SetPropertyValueSingle" -> JStr("setPropertyValueSingle")

from_json_SetType(j) ==
    IF j.s = "setPropertyValue" THEN Ok("SetPropertyValue", {})
    ELSE IF j.s = "setPropertyValueSingle" THEN Ok("SetPropertyValueSingle", {})
    ELSE Err(ParsingError(<<"Unknown property set type">>))

to_json_Property(v) ==
    JObj([type |-> to_json_SetType(v.setType),
          name |-> JStr(v.name),
          value |-> JStr(v.value)])

from_json_Property(j) ==
    LET e == FirstErr(<<
            checkValue(j, "type", "string", "property", FALSE),
            checkValue(j, "name", "string", "property", FALSE),
            checkValue(j, "value", "string", "property", FALSE)>>)
        st == from_json_SetType(Get(j, "type"))
    IN  IF e # NoErr THEN Err(e)
        ELSE IF ~st.ok THEN st
        ELSE Ok([setType |-> st.val,
                 name |-> j.o["name"].s,
                 value |-> j.o["value"].s],
                checkExtraKeys(j, "property", {"type", "name", "value"}))

to_json_Action(v) ==
    JObj([identifier |-> JStr(v.identifier),
          documentation |-> JStr(v.documentation),
          name |-> JStr(v.name),
          gui_path |-> JStr(v.guiPath),
          is_local |-> JBool(v.isLocal),
          script |-> JStr(v.script)])

ActionKeys ==
    {"identifier", "documentation", "name", "gui_path", "is_local", "script"}

from_json_Action(j) ==
    LET e == FirstErr(<<
            checkValue(j, "identifier", "string", "action", FALSE),
            checkValue(j, "documentation", "string", "action", FALSE),
            checkValue(j, "name", "string", "action", FALSE),
            checkValue(j, "gui_path", "string", "action", FALSE),
            checkValue(j, "is_local", "boolean", "action", FALSE),
            checkValue(j, "script", "string", "action", FALSE)>>)
    IN  IF e # NoErr THEN Err(e)
        ELSE Ok([identifier |-> j.o["identifier"].s,
                 documentation |-> j.o["documentation"].s,
                 name |-> j.o["name"].s,
                 guiPath |-> j.o["gui_path"].s,
                 isLocal |-> j.o["is_local"].b,
                 script |-> j.o["script"].s],
                checkExtraKeys(j, "action", ActionKeys))

(***************************************************************************)
(* Keys (openspace/util/keys.h, not part of the sources at hand): a        *)
(* KeyWithModifier is a key and a modifier; keyToString gives the one      *)
(* canonical text of a key, stringToKey reads a text case-insensitively    *)
(* and knows a second name for some keys.                                  *)
(***************************************************************************)
KeyWithModifier(k, m) == [key |-> k, modifier |-> m]

\* text -> key, for every text stringToKey accepts
KeyMapping ==
    [A |-> KeyWithModifier("Key::A", "None"),
     a |-> KeyWithModifier("Key::A", "None"),
     ESC |-> KeyWithModifier("Key::Escape", "None"),
     ESCAPE |-> KeyWithModifier("Key::Escape", "None")]
    @@ ("SHIFT+A" :> KeyWithModifier("Key::A", "Shift"))
    @@ ("Shift+a" :> KeyWithModifier("Key::A", "Shift"))

\* the canonical texts
KeyNames == {"A", "ESC", "SHIFT+A"}

keyToString(k) == CHOOSE s \in KeyNames : KeyMapping[s] = k

stringToKey(s) ==
    IF s \in DOMAIN KeyMapping THEN Ok(KeyMapping[s], {})
    ELSE Err(RuntimeError(<<"Could not find key for '", s, "'">>))

to_json_Keybinding(v) ==
    JObj([key |-> JStr(keyToString(v.key)), action |-> JStr(v.action)])

from_json_Keybinding(j) ==
    LET e == FirstErr(<<
            checkValue(j, "key", "string", "keybinding", FALSE),
            checkValue(j, "action", "string", "keybinding", FALSE)>>)
        k == stringToKey(j.o["key"].s)
    IN  IF e # NoErr THEN Err(e)
        ELSE IF ~k.ok THEN k
        ELSE Ok([key |-> k.val, action |-> j.o["action"].s],
                checkExtraKeys(j, "keybinding", {"key", "action"}))

to_json_TimeType(v) ==
    CASE v = "Absolute" -> JStr("absolute")
      [] v = "Relative" -> JStr("relative")

from_json_TimeType(j) ==
    IF j.s = "absolute" THEN Ok("Absolute", {})
    ELSE IF j.s = "relative" THEN Ok("Relative", {})
    ELSE Err(ParsingError(<<"Unknown time type">>))

to_json_Time(v) ==
    JObj([type |-> to_json_TimeType(v.type), value |-> JStr(v.value)])

from_json_Time(j) ==
    LET e == FirstErr(<<
            checkValue(j, "type", "string", "time", FALSE),
            checkValue(j, "value", "string", "time", FALSE)>>)
        ty == from_json_TimeType(Get(j, "type"))
    IN  IF e # NoErr THEN Err(e)
        ELSE IF ~ty.ok THEN ty
        ELSE Ok([type |-> ty.val, value |-> j.o["value"].s],
                checkExtraKeys(j, "time", {"type", "value"}))

\* the discriminators CameraNavState::Type and CameraGoToGeo::Type
CameraNavStateType == "navState"

CameraGoToGeoType == "goToGeo"

to_json_dvec3(v) == JObj([x |-> JNum(v.x), y |-> JNum(v.y), z |-> JNum(v.z)])

from_json_dvec3(j) == [x |-> j.o["x"].n, y |-> j.o["y"].n, z |-> j.o["z"].n]

to_json_CameraNavState(v) ==
    Assign(<<<<"type", Some(JStr(CameraNavStateType))>>,
             <<"anchor", Some(JStr(v.anchor))>>,
             <<"aim", OptJStr(v.aim)>>,
             <<"frame", Some(JStr(v.referenceFrame))>>,
             <<"position", Some(to_json_dvec3(v.position))>>,
             <<"up", IF v.up.has THEN Some(to_json_dvec3(v.up.val)) ELSE None>>,
             <<"yaw", IF v.yaw.has THEN Some(JNum(v.yaw.val)) ELSE None>>,
             <<"pitch", IF v.pitch.has THEN Some(JNum(v.pitch.val)) ELSE None>>>>)

NavStateKeys ==
    {"type", "anchor", "aim", "frame", "position", "up", "yaw", "pitch"}

from_json_CameraNavState(j) ==
    LET pos == Get(j, "position")
        up == Get(j, "up")
        e == FirstErr(<<
            checkValue(j, "anchor", "string", "camera", FALSE),
            checkValue(j, "aim", "string", "camera", TRUE),
            checkValue(j, "frame", "string", "camera", FALSE),
            checkValue(j, "position", "object", "camera", FALSE),
            checkValue(pos, "x", "number", "camera.position", FALSE),
            checkValue(pos, "y", "number", "camera.position", FALSE),
            checkValue(pos, "z", "number", "camera.position", FALSE),
            checkValue(j, "up", "object", "camera", TRUE),
            IF Has(j, "up")
            THEN FirstErr(<<
                    checkValue(up, "x", "number", "camera.up", FALSE),
                    checkValue(up, "y", "number", "camera.up", FALSE),
                    checkValue(up, "z", "number", "camera.up", FALSE)>>)
            ELSE NoErr,
            checkValue(j, "yaw", "number", "camera", TRUE),
            checkValue(j, "pitch", "number", "camera", TRUE)>>)
    IN  IF e # NoErr THEN Err(e)
        ELSE Ok([variant |-> "CameraNavState",
                 anchor |-> j.o["anchor"].s,
                 aim |-> OptString(j, "aim"),
                 referenceFrame |-> j.o["frame"].s,
                 position |-> from_json_dvec3(pos),
                 up |-> IF Has(j, "up") THEN Some(from_json_dvec3(up)) ELSE None,
                 yaw |-> OptNumber(j, "yaw"),
                 pitch |-> OptNumber(j, "pitch")],
                checkExtraKeys(pos, "camera.position", {"x", "y", "z"})
                \cup (IF Has(j, "up")
                      THEN checkExtraKeys(up, "camera.up", {"x", "y", "z"})
                      ELSE {})
                \cup checkExtraKeys(j, "camera", NavStateKeys))

to_json_CameraGoToGeo(v) ==
    Assign(<<<<"type", Some(JStr(CameraGoToGeoType))>>,
             <<"anchor", Some(JStr(v.anchor))>>,
             <<"latitude", Some(JNum(v.latitude))>>,
             <<"longitude", Some(JNum(v.longitude))>>,
             <<"altitude",
               IF v.altitude.has THEN Some(JNum(v.altitude.val)) ELSE None>>>>)

GoToGeoKeys == {"type", "anchor", "latitude", "longitude", "altitude"}

from_json_CameraGoToGeo(j) ==
    LET e == FirstErr(<<
            checkValue(j, "anchor", "string", "camera", FALSE),
            checkValue(j, "latitude", "number", "camera", FALSE),
            checkValue(j, "longitude", "number", "camera", FALSE),
            checkValue(j, "altitude", "number", "camera", TRUE)>>)
    IN  IF e # NoErr THEN Err(e)
        ELSE Ok([variant |-> "CameraGoToGeo",
                 anchor |-> j.o["anchor"].s,
                 latitude |-> j.o["latitude"].n,
                 longitude |-> j.o["longitude"].n,
                 altitude |-> OptNumber(j, "altitude")],
                checkExtraKeys(j, "camera", GoToGeoKeys))

(***************************************************************************)
(* namespace version10: the keybinding of a 1.0 document and the           *)
(* conversion of a 1.0 tree into a 1.1 tree                                *)
(***************************************************************************)
version10_from_json_Keybinding(j) ==
    LET e == FirstErr(<<
            checkValue(j, "key", "string", "keybinding", FALSE),
            checkValue(j, "documentation", "string", "keybinding", FALSE),
            checkValue(j, "name", "string", "keybinding", FALSE),
            checkValue(j, "gui_path", "string", "keybinding", FALSE),
            checkValue(j, "is_local", "boolean", "keybinding", FALSE),
            checkValue(j, "script", "string", "keybinding", FALSE)>>)
        k == stringToKey(j.o["key"].s)
    IN  IF e # NoErr THEN Err(e)
        ELSE IF ~k.ok THEN k
        ELSE Ok([key |-> k.val,
                 documentation |-> j.o["documentation"].s,
                 name |-> j.o["name"].s,
                 guiPath |-> j.o["gui_path"].s,
                 isLocal |-> j.o["is_local"].b,
                 script |-> j.o["script"].s],
                checkExtraKeys(j, "keybinding",
                    {"key", "documentation", "name", "gui_path", "is_local",
                     "script"}))

\* mutant: the identifiers are numbered from 1
KeybindIdentifier_fromOne(i) == "profile.keybind." \o ToString(i + 1)

\* fmt::format("profile.keybind.{}", i) for the i-th keybinding, i from 0
KeybindIdentifier(i) == "profile.keybind." \o ToString(i)

\* the tree with the actions and keybindings made from the 1.0 keybindings
\* kbs, or the exception that reading them threw
Converted(tree, kbs) ==
    IF ~kbs.ok THEN kbs
    ELSE
    LET n == Len(kbs.val)
        actions == [i \in 1..n |->
            [identifier |-> KeybindIdentifier(i - 1),
             documentation |-> kbs.val[i].documentation,
             name |-> kbs.val[i].name,
             guiPath |-> kbs.val[i].guiPath,
             isLocal |-> kbs.val[i].isLocal,
             script |-> kbs.val[i].script]]
        keybindings == [i \in 1..n |->
            [key |-> kbs.val[i].key, action |-> KeybindIdentifier(i - 1)]]
        t1 == Put(tree.o, "actions",
                  JArr([i \in 1..n |-> to_json_Action(actions[i])]))
        t2 == Put(t1, "keybindings",
                  JArr([i \in 1..n |-> to_json_Keybinding(keybindings[i])]))
        t3 == Put(t2, "version", to_json_Version([major |-> 1, minor |-> 1]))
    IN  Ok(JObj(t3), kbs.log)

\* the tree after the conversion, or the exception it throws
convertVersion10to11(tree) ==
    IF ~Has(tree, "keybindings") THEN Ok(tree, {})
    ELSE Converted(tree,
            get_vector(tree.o["keybindings"], version10_from_json_Keybinding))

(***************************************************************************)
(* Profile                                                                 *)
(***************************************************************************)
\* a default-constructed Profile (profile.h)
DefaultProfile ==
    [version |-> CurrentVersion,
     modules |-> <<>>,
     meta |-> None,
     assets |-> <<>>,
     properties |-> <<>>,
     actions |-> <<>>,
     keybindings |-> <<>>,
     time |-> None,
     deltaTimes |-> <<>>,
     camera |-> None,
     markNodes |-> <<>>,
     additionalScripts |-> <<>>,
     ignoreUpdates |-> FALSE]

\* r[key] = v for a non-empty vector v
VectorMember(key, v, ToJson(_)) ==
    <<key, IF v # <<>> THEN Some(JArr([i \in 1..Len(v) |-> ToJson(v[i])]))
           ELSE None>>

to_json_Camera(c) ==
    IF c.variant = "CameraNavState" THEN to_json_CameraNavState(c)
    ELSE to_json_CameraGoToGeo(c)

\* Profile::serialize: the tree that dump(2) prints
serialize(p) ==
    Assign(<<
        <<"version", Some(to_json_Version(p.version))>>,
        VectorMember("modules", p.modules, to_json_Module),
        <<"meta", IF p.meta.has THEN Some(to_json_Meta(p.meta.val)) ELSE None>>,
        VectorMember("assets", p.assets, JStr),
        VectorMember("properties", p.properties, to_json_Property),
        VectorMember("actions", p.actions, to_json_Action),
        VectorMember("keybindings", p.keybindings, to_json_Keybinding),
        <<"time", IF p.time.has THEN Some(to_json_Time(p.time.val)) ELSE None>>,
        VectorMember("delta_times", p.deltaTimes, JNum),
        <<"camera",
          IF p.camera.has THEN Some(to_json_Camera(p.camera.val)) ELSE None>>,
        VectorMember("mark_nodes", p.markNodes, JStr),
        VectorMember("additional_scripts", p.additionalScripts, JStr)>>)

\* the keys of the documents in the order of std::less<std::string>:
\* nlohmann::json keeps the members of an object in a std::map
KeyOrder ==
    <<"action", "actions", "additional_scripts", "aim", "altitude", "anchor",
      "assets", "author", "camera", "delta_times", "description",
      "documentation", "extra", "frame", "gui_path", "identifier", "is_local",
      "key", "keybindings", "latitude", "license", "loadedInstruction",
      "longitude", "major", "mark_nodes", "meta", "minor", "modules", "name",
      "notLoadedInstruction", "pitch", "position", "properties", "script",
      "time", "type", "up", "url", "value", "version", "x", "y", "yaw", "z">>

\* the keys among order that object o has, in that order
KeysIn(o, order) == SelectSeq(order, LAMBDA k : k \in DOMAIN o)

\* the keys of an object in the order dump prints them: the order in which
\* the std::map iterates
dump_keys(j) == KeysIn(j.o, KeyOrder)

\* nlohmann::json::parse: a text that is no JSON has the tag "invalid"
parse(content) ==
    IF content.t = "invalid"
    THEN Err(JsonException(<<"parse error">>))
    ELSE Ok(content, {})

\* tree.at("version")
at_version(tree) ==
    IF tree.t # "object"
    THEN Err(JsonException(<<"cannot use at() with ", tree.t>>))
    ELSE IF ~Has(tree, "version")
    THEN Err(JsonException(<<"key '", "version", "' not found">>))
    ELSE Ok(tree.o["version"], {})

\* tree.at("version").get_to(version)
read_version(tree) ==
    LET v == at_version(tree)
    IN  IF ~v.ok THEN v ELSE from_json_Version(v.val)

\* the member `key` read by Read when the tree has it, else the default
Section(tree, key, default, Read(_)) ==
    IF Has(tree, key) THEN Read(tree.o[key]) ELSE Ok(default, {})

get_modules(j) == get_vector(j, from_json_Module)

get_meta(j) ==
    LET m == from_json_Meta(j)
    IN  IF m.ok THEN Ok(Some(m.val), m.log) ELSE m

get_strings(j) == get_vector(j, get_string)

get_properties(j) == get_vector(j, from_json_Property)

get_actions(j) == get_vector(j, from_json_Action)

get_keybindings(j) == get_vector(j, from_json_Keybinding)

get_time(j) ==
    LET m == from_json_Time(j)
    IN  IF m.ok THEN Ok(Some(m.val), m.log) ELSE m

get_numbers(j) == get_vector(j, get_number)

\* mutant: a camera that is not goToGeo is read as navState
get_camera_navStateElse(c) ==
    IF c.t \notin {"object", "null"}
    THEN Err(JsonException(<<"cannot use operator[] with a string argument with ",
                             c.t>>))
    ELSE LET r == IF Get(c, "type") = JStr(CameraGoToGeoType)
                  THEN from_json_CameraGoToGeo(c)
                  ELSE from_json_CameraNavState(c)
         IN  IF r.ok THEN Ok(Some(r.val), r.log) ELSE r

\* the camera section: c["type"] on a copy of the value, then the variant
get_camera(c) ==
    IF c.t \notin {"object", "null"}
    THEN Err(JsonException(<<"cannot use operator[] with a string argument with ",
                             c.t>>))
    ELSE LET r == IF Get(c, "type") = JStr(CameraNavStateType)
                  THEN from_json_CameraNavState(c)
                  ELSE IF Get(c, "type") = JStr(CameraGoToGeoType)
                  THEN from_json_CameraGoToGeo(c)
                  ELSE Err(ParsingError(<<"Unknown camera type">>))
         IN  IF r.ok THEN Ok(Some(r.val), r.log) ELSE r

\* mutant: the conversion runs for every minor version of major version 1
NeedsVersion10to11_anyMinor(version) == version.major = 1

\* whether the constructor runs the 1.0 -> 1.1 conversion
NeedsVersion10to11(version) == version.major = 1 /\ version.minor = 0

\* the sections read from the tree, in the order the constructor reads them
Sections(tree) ==
    <<Section(tree, "modules", <<>>, get_modules),
      Section(tree, "meta", None, get_meta),
      Section(tree, "assets", <<>>, get_strings),
      Section(tree, "properties", <<>>, get_properties),
      Section(tree, "actions", <<>>, get_actions),
      Section(tree, "keybindings", <<>>, get_keybindings),
      Section(tree, "time", None, get_time),
      Section(tree, "delta_times", <<>>, get_numbers),
      Section(tree, "camera", None, get_camera),
      Section(tree, "mark_nodes", <<>>, get_strings),
      Section(tree, "additional_scripts", <<>>, get_strings)>>

\* the Profile of the sections read, or the first exception among them;
\* steps is the number of conversions that ran
Assemble(secs, version, log, steps) ==
    LET bad == {i \in 1..Len(secs) : ~secs[i].ok}
    IN  IF bad # {}
        THEN Err(secs[CHOOSE i \in bad : \A k \in bad : i <= k].err)
        ELSE [ok |-> TRUE,
              val |-> [version |-> version,
                       modules |-> secs[1].val,
                       meta |-> secs[2].val,
                       assets |-> secs[3].val,
                       properties |-> secs[4].val,
                       actions |-> secs[5].val,
                       keybindings |-> secs[6].val,
                       time |-> secs[7].val,
                       deltaTimes |-> secs[8].val,
                       camera |-> secs[9].val,
                       markNodes |-> secs[10].val,
                       additionalScripts |-> secs[11].val,
                       ignoreUpdates |-> FALSE],
              log |-> log \cup UNION {secs[i].log : i \in 1..Len(secs)},
              steps |-> steps]

\* after the conversion: the version is read again, then the sections
AfterReread(tree, v1, log) ==
    IF ~v1.ok THEN v1
    ELSE Assemble(Sections(tree), v1.val, log \cup v1.log, 1)

AfterConvert(conv, log) ==
    IF ~conv.ok THEN conv
    ELSE AfterReread(conv.val, read_version(conv.val), log \cup conv.log)

\* after the version is read: the file format is updated in steps
AfterVersion(tree, v0) ==
    IF ~v0.ok THEN v0
    ELSE IF NeedsVersion10to11(v0.val)
    THEN AfterConvert(convertVersion10to11(tree), v0.log)
    ELSE Assemble(Sections(tree), v0.val, v0.log, 0)

AfterParse(parsed) ==
    IF ~parsed.ok THEN parsed
    ELSE AfterVersion(parsed.val, read_version(parsed.val))

\* the body of Profile::Profile(content) inside its try block: the Profile
\* and the number of conversion steps run, or the exception thrown
ProfileTry(content) == AfterParse(parse(content))

\* catch (const nlohmann::json::exception& e): it leaves as a ParsingError
Rethrow(r) ==
    IF ~r.ok /\ r.err.type = "json.exception"
    THEN Err(ParsingError(r.err.msg))
    ELSE r

\* Profile::Profile(content)
ProfileFromContent(content) == Rethrow(ProfileTry(content))

(***************************************************************************)
(* Mutations of a Profile.  Each gives the Profile after the call and      *)
(* whether the call returned or threw.                                     *)
(***************************************************************************)
Returned == [ok |-> TRUE]

\* std::find(assets.cbegin(), assets.cend(), path): the first index, or 0
Find(assets, path) ==
    LET hits == {i \in 1..Len(assets) : assets[i] = path}
    IN  IF hits = {} THEN 0 ELSE CHOOSE i \in hits : \A k \in hits : i <= k

\* assets.erase(it)
Erase(assets, i) ==
    [k \in 1..(Len(assets) - 1) |-> IF k < i THEN assets[k] ELSE assets[k + 1]]

\* mutant: the path is appended without looking for it
addAsset_noFind(p, path) ==
    IF p.ignoreUpdates THEN [profile |-> p, result |-> Returned]
    ELSE [profile |-> [p EXCEPT !.assets = Append(p.assets, path)],
          result |-> Returned]

\* mutant: a new path is inserted at the front
addAsset_front(p, path) ==
    IF p.ignoreUpdates THEN [profile |-> p, result |-> Returned]
    ELSE IF Find(p.assets, path) = 0
    THEN [profile |-> [p EXCEPT !.assets = <<path>> \o p.assets],
          result |-> Returned]
    ELSE [profile |-> p, result |-> Returned]

addAsset(p, path) ==
    IF p.ignoreUpdates THEN [profile |-> p, result |-> Returned]
    ELSE IF Find(p.assets, path) = 0
    THEN [profile |-> [p EXCEPT !.assets = Append(p.assets, path)],
          result |-> Returned]
    ELSE [profile |-> p, result |-> Returned]

\* mutant: the last entry equal to path is erased
removeAsset_last(p, path) ==
    LET hits == {i \in 1..Len(p.assets) : p.assets[i] = path}
    IN  IF p.ignoreUpdates THEN [profile |-> p, result |-> Returned]
        ELSE IF hits = {}
        THEN [profile |-> p,
              result |-> Err(RuntimeError(
                  <<"Tried to remove non-existing asset '", path, "'">>))]
        ELSE [profile |-> [p EXCEPT !.assets =
                  Erase(p.assets, CHOOSE i \in hits : \A k \in hits : i >= k)],
              result |-> Returned]

\* mutant: a path that is not found is passed over in silence
removeAsset_silent(p, path) ==
    IF p.ignoreUpdates THEN [profile |-> p, result |-> Returned]
    ELSE IF Find(p.assets, path) = 0
    THEN [profile |-> p, result |-> Returned]
    ELSE [profile |-> [p EXCEPT !.assets = Erase(p.assets, Find(p.assets, path))],
          result |-> Returned]

\* mutant: ignoreUpdates is not looked at
removeAsset_unguarded(p, path) ==
    IF Find(p.assets, path) = 0
    THEN [profile |-> p,
          result |-> Err(RuntimeError(
              <<"Tried to remove non-existing asset '", path, "'">>))]
    ELSE [profile |-> [p EXCEPT !.assets = Erase(p.assets, Find(p.assets, path))],
          result |-> Returned]

removeAsset(p, path) ==
    IF p.ignoreUpdates THEN [profile |-> p, result |-> Returned]
    ELSE IF Find(p.assets, path) = 0
    THEN [profile |-> p,
          result |-> Err(RuntimeError(
              <<"Tried to remove non-existing asset '", path, "'">>))]
    ELSE [profile |-> [p EXCEPT !.assets = Erase(p.assets, Find(p.assets, path))],
          result |-> Returned]

(***************************************************************************)
(* Capture of the live session.  A PropertyOwner is a record of its        *)
(* sub-owners and its own properties; a property has its fully qualified   *)
(* identifier, its changed flag and its value as a string.                 *)
(***************************************************************************)
RECURSIVE Flatten(_)
Flatten(ss) == IF ss = <<>> THEN <<>> ELSE Head(ss) \o Flatten(Tail(ss))

HasChanged(p) == p.changed

\* mutant: a node's own properties come before those of its sub-owners
RECURSIVE changedProperties_ownFirst(_)
changedProperties_ownFirst(po) ==
    SelectSeq(po.properties, HasChanged)
    \o Flatten([i \in 1..Len(po.propertySubOwners) |->
                  changedProperties_ownFirst(po.propertySubOwners[i])])

RECURSIVE changedProperties(_)
changedProperties(po) ==
    Flatten([i \in 1..Len(po.propertySubOwners) |->
                changedProperties(po.propertySubOwners[i])])
    \o SelectSeq(po.properties, HasChanged)

\* mutant: the captured entries take the place of the properties
saveCurrentSettingsToProfile_replace(p, rootOwner, currentTime, navState, deltaTimeSteps) ==
    [p EXCEPT
        !.version = CurrentVersion,
        !.properties =
            [i \in 1..Len(changedProperties(rootOwner)) |->
                [setType |-> "SetPropertyValueSingle",
                 name |-> changedProperties(rootOwner)[i].id,
                 value |-> changedProperties(rootOwner)[i].value]],
        !.time = Some([type |-> "Absolute", value |-> currentTime]),
        !.deltaTimes = deltaTimeSteps,
        !.camera = Some([variant |-> "CameraNavState",
                         anchor |-> navState.anchor,
                         aim |-> navState.aim,
                         referenceFrame |-> navState.referenceFrame,
                         position |-> navState.position,
                         up |-> navState.up,
                         yaw |-> navState.yaw,
                         pitch |-> navState.pitch])]

\* mutant: the capture does nothing while ignoreUpdates is set
saveCurrentSettingsToProfile_guarded(p, rootOwner, currentTime, navState, deltaTimeSteps) ==
    IF p.ignoreUpdates THEN p
    ELSE [p EXCEPT
        !.version = CurrentVersion,
        !.properties = p.properties \o
            [i \in 1..Len(changedProperties(rootOwner)) |->
                [setType |-> "SetPropertyValueSingle",
                 name |-> changedProperties(rootOwner)[i].id,
                 value |-> changedProperties(rootOwner)[i].value]],
        !.time = Some([type |-> "Absolute", value |-> currentTime]),
        !.deltaTimes = deltaTimeSteps,
        !.camera = Some([variant |-> "CameraNavState",
                         anchor |-> navState.anchor,
                         aim |-> navState.aim,
                         referenceFrame |-> navState.referenceFrame,
                         position |-> navState.position,
                         up |-> navState.up,
                         yaw |-> navState.yaw,
                         pitch |-> navState.pitch])]

\* mutant: a camera the Profile already has is kept
saveCurrentSettingsToProfile_keepCamera(p, rootOwner, currentTime, navState, deltaTimeSteps) ==
    [p EXCEPT
        !.version = CurrentVersion,
        !.properties = p.properties \o
            [i \in 1..Len(changedProperties(rootOwner)) |->
                [setType |-> "SetPropertyValueSingle",
                 name |-> changedProperties(rootOwner)[i].id,
                 value |-> changedProperties(rootOwner)[i].value]],
        !.time = Some([type |-> "Absolute", value |-> currentTime]),
        !.deltaTimes = deltaTimeSteps,
        !.camera = IF p.camera.has THEN p.camera
                   ELSE Some([variant |-> "CameraNavState",
                              anchor |-> navState.anchor,
                              aim |-> navState.aim,
                              referenceFrame |-> navState.referenceFrame,
                              position |-> navState.position,
                              up |-> navState.up,
                              yaw |-> navState.yaw,
                              pitch |-> navState.pitch])]

saveCurrentSettingsToProfile(p, rootOwner, currentTime, navState, deltaTimeSteps) ==
    LET ps == changedProperties(rootOwner)
        new == [i \in 1..Len(ps) |->
                  [setType |-> "SetPropertyValueSingle",
                   name |-> ps[i].id,
                   value |-> ps[i].value]]
    IN  [p EXCEPT
            !.version = CurrentVersion,
            !.properties = p.properties \o new,
            !.time = Some([type |-> "Absolute", value |-> currentTime]),
            !.deltaTimes = deltaTimeSteps,
            !.camera = Some([variant |-> "CameraNavState",
                             anchor |-> navState.anchor,
                             aim |-> navState.aim,
                             referenceFrame |-> navState.referenceFrame,
                             position |-> navState.position,
                             up |-> navState.up,
                             yaw |-> navState.yaw,
                             pitch |-> navState.pitch])]

(***************************************************************************)
(* Generation of the asset fragments.  A fragment is the sequence of its   *)
(* lines, a line the tuple of the pieces fmt::format joins.  A generator   *)
(* gives Generated(lines) or Failed(e).  Reading a std::optional that has  *)
(* no value is undefined: the build either stops the process or reads an   *)
(* indeterminate value; ub is the outcome it takes.                        *)
(***************************************************************************)
Generated(lines) == [ok |-> TRUE, lines |-> lines]

Failed(e) == [ok |-> FALSE, err |-> e]

Crash == [type |-> "crash"]

MissingCaseException == [type |-> "MissingCaseException"]

\* the outcomes of reading an optional without value: the process stops, or
\* a string and a Time::Type of any content are read
UBOutcomes ==
    {[crash |-> TRUE, str |-> "", type |-> "Absolute"]}
    \cup {[crash |-> FALSE, str |-> x, type |-> t] :
            x \in {"", "?"}, t \in {"Absolute", "Relative", "Other"}}

\* *o for a std::optional o
Deref(o, garbage) == IF o.has THEN o.val ELSE garbage

OnInitialize == <<"asset.onInitialize(function()">>

End == <<"end)">>

convertToAsset_meta(p) ==
    IF ~p.meta.has THEN Generated(<<>>)
    ELSE LET m == p.meta.val
             Line(o, label, tail) ==
                IF o.has THEN <<<<"  ", label, " = [[", o.val, "]]", tail>>>>
                ELSE <<>>
         IN  Generated(<<<<"asset.meta = {">>>>
                \o Line(m.name, "Name", ",")
                \o Line(m.version, "Version", ",")
                \o Line(m.description, "Description", ",")
                \o Line(m.author, "Author", ",")
                \o Line(m.url, "URL", ",")
                \o Line(m.license, "License", "")
                \o <<<<"}">>, <<>>>>)

convertToAsset_addedAssets(p) ==
    Generated([i \in 1..Len(p.assets) |->
                 <<"asset.require(\"", p.assets[i], "\");">>])

\* a module has both of its instructions
HasInstructions(m) == m.loadedInstruction.has /\ m.notLoadedInstruction.has

convertToAsset_modules(p, ub) ==
    IF ub.crash /\ \E i \in 1..Len(p.modules) : ~HasInstructions(p.modules[i])
    THEN Failed(Crash)
    ELSE Generated([i \in 1..Len(p.modules) |->
            <<"if openspace.modules.isLoaded(\"", p.modules[i].name, "\") then ",
              Deref(p.modules[i].loadedInstruction, ub.str), " else ",
              Deref(p.modules[i].notLoadedInstruction, ub.str), " end">>])

convertToAsset_actions(p) ==
    Generated(<<OnInitialize>>
        \o [i \in 1..Len(p.actions) |->
              <<"  openspace.action.registerAction({Identifier=[[",
                p.actions[i].identifier, "]], Command=[[", p.actions[i].script,
                "]], Name=[[",
                IF p.actions[i].name = "" THEN p.actions[i].identifier
                ELSE p.actions[i].name,
                "]], Documentation=[[", p.actions[i].documentation,
                "]], GuiPath=[[", p.actions[i].guiPath, "]], IsLocal=",
                IF p.actions[i].isLocal THEN "true" ELSE "false", "})">>]
        \o <<End>>)

convertToAsset_keybinds(p) ==
    Generated(<<OnInitialize>>
        \o [i \in 1..Len(p.keybindings) |->
              <<"  openspace.bindKey([[", keyToString(p.keybindings[i].key),
                "]], [[", p.keybindings[i].action, "]])">>]
        \o <<End>>)

\* mutant: a relative time is set without computing now first
TimeStatements_noNow(t) ==
    CASE t.type = "Absolute" ->
            <<<<"  openspace.time.setTime(\"", t.value, "\")">>>>
      [] t.type = "Relative" ->
            <<<<"  local prev = openspace.time.advancedTime(now, \"", t.value,
                "\");">>,
              <<"  openspace.time.setTime(prev);">>>>

\* the statements of the time fragment for a Time t
TimeStatements(t) ==
    CASE t.type = "Absolute" ->
            <<<<"  openspace.time.setTime(\"", t.value, "\")">>>>
      [] t.type = "Relative" ->
            <<<<"  local now = openspace.time.currentWallTime();">>,
              <<"  local prev = openspace.time.advancedTime(now, \"", t.value,
                "\");">>,
              <<"  openspace.time.setTime(prev);">>>>

convertToAsset_time(p, ub) ==
    IF ~p.time.has /\ ub.crash THEN Failed(Crash)
    ELSE IF Deref(p.time, ub).type \notin {"Absolute", "Relative"}
    THEN Failed(MissingCaseException)
    ELSE Generated(<<OnInitialize>>
            \o TimeStatements([type |-> Deref(p.time, ub).type,
                               value |-> IF p.time.has THEN p.time.val.value
                                         ELSE ub.str])
            \o <<End>>)

convertToAsset_deltaTimes(p) ==
    Generated(<<OnInitialize,
                <<"  openspace.time.setDeltaTimeSteps({ ",
                  [i \in 1..Len(p.deltaTimes) |-> <<p.deltaTimes[i], ", ">>],
                  " });">>,
                End>>)

convertToAsset_markNodes(p) ==
    Generated(<<OnInitialize,
                <<"  openspace.markInterestingNodes({ ",
                  [i \in 1..Len(p.markNodes) |-> <<"[[", p.markNodes[i], "]],">>],
                  " });">>,
                End>>)

convertToAsset_properties(p) ==
    IF \E i \in 1..Len(p.properties) :
          p.properties[i].setType \notin {"SetPropertyValue", "SetPropertyValueSingle"}
    THEN Failed(MissingCaseException)
    ELSE Generated(<<OnInitialize>>
            \o [i \in 1..Len(p.properties) |->
                  <<IF p.properties[i].setType = "SetPropertyValue"
                    THEN "  openspace.setPropertyValue(\""
                    ELSE "  openspace.setPropertyValueSingle(\"",
                    p.properties[i].name, "\", ", p.properties[i].value, ");">>]
            \o <<End>>)

\* the call for a CameraNavState: one field for each present attribute
NavigationStateCall(c) ==
    <<"  openspace.navigation.setNavigationState({", "Anchor = [[", c.anchor, "]], ">>
    \o (IF c.aim.has THEN <<"Aim = [[", c.aim.val, "]], ">> ELSE <<>>)
    \o (IF c.referenceFrame # ""
        THEN <<"ReferenceFrame = [[", c.referenceFrame, "]], ">> ELSE <<>>)
    \o <<"Position = { ", c.position.x, ", ", c.position.y, ", ", c.position.z, " }, ">>
    \o (IF c.up.has
        THEN <<"Up = { ", c.up.val.x, ", ", c.up.val.y, ", ", c.up.val.z, " }, ">>
        ELSE <<>>)
    \o (IF c.yaw.has THEN <<"Yaw = ", c.yaw.val, ", ">> ELSE <<>>)
    \o (IF c.pitch.has THEN <<"Pitch = ", c.pitch.val, " ">> ELSE <<>>)
    \o <<"})">>

\* the call for a CameraGoToGeo: three or four arguments
GoToGeoCall(c) ==
    <<"  openspace.globebrowsing.goToGeo([[", c.anchor, "]], ", c.latitude, ", ",
      c.longitude>>
    \o (IF c.altitude.has THEN <<", ", c.altitude.val>> ELSE <<>>)
    \o <<");">>

convertToAsset_camera(p) ==
    Generated(<<OnInitialize>>
        \o (IF ~p.camera.has THEN <<>>
            ELSE IF p.camera.val.variant = "CameraNavState"
            THEN <<NavigationStateCall(p.camera.val)>>
            ELSE <<GoToGeoCall(p.camera.val)>>)
        \o <<End>>)

convertToAsset_addedScripts(p) ==
    Generated(<<OnInitialize>>
        \o [i \in 1..Len(p.additionalScripts) |-> <<"  ", p.additionalScripts[i]>>]
        \o <<End>>)

\* the sections of convertToSeparatedAssets in the order of its calls, each
\* with what its generator gives for Profile p
SectionFragments(p, ub) ==
    <<[name |-> "_meta", text |-> convertToAsset_meta(p)],
      [name |-> "_addedAssets", text |-> convertToAsset_addedAssets(p)],
      [name |-> "_modules", text |-> convertToAsset_modules(p, ub)],
      [name |-> "_actions", text |-> convertToAsset_actions(p)],
      [name |-> "_keybinds", text |-> convertToAsset_keybinds(p)],
      [name |-> "_time", text |-> convertToAsset_time(p, ub)],
      [name |-> "_deltaTimes", text |-> convertToAsset_deltaTimes(p)],
      [name |-> "_markNodes", text |-> convertToAsset_markNodes(p)],
      [name |-> "_properties", text |-> convertToAsset_properties(p)],
      [name |-> "_camera", text |-> convertToAsset_camera(p)],
      [name |-> "_addedScripts", text |-> convertToAsset_addedScripts(p)]>>

\* the run of convertToSeparatedAssets over the fragments fs: every section
\* is written in turn; the first generator that fails ends the run, and the
\* sections after it are not written
SeparatedAssets(fs) ==
    LET bad == {i \in 1..Len(fs) : ~fs[i].text.ok}
        first == IF bad = {} THEN Len(fs) + 1
                 ELSE CHOOSE i \in bad : \A k \in bad : i <= k
    IN  [ok |-> bad = {},
         files |-> [i \in 1..(first - 1) |->
                      [name |-> fs[i].name, lines |-> fs[i].text.lines]],
         failed |-> IF bad = {} THEN "" ELSE fs[first].name,
         err |-> IF bad = {} THEN NoErr ELSE fs[first].text.err]

convertToSeparatedAssets(p, ub) == SeparatedAssets(SectionFragments(p, ub))

(***************************************************************************)
(* Inputs: the documents handed to the constructor                         *)
(***************************************************************************)
Str(x) == JStr(x)

VersionJson(major, minor) == to_json_Version([major |-> major, minor |-> minor])

\* a keybinding as a 1.0 document writes it
OldKeybinding(key, name, script, local) ==
    JObj([key |-> JStr(key),
          documentation |-> JStr("doc of " \o name),
          name |-> JStr(name),
          gui_path |-> JStr("/" \o name),
          is_local |-> JBool(local),
          script |-> JStr(script)])

ActionJson(id, script) ==
    JObj([identifier |-> JStr(id),
          documentation |-> JStr(""),
          name |-> JStr(""),
          gui_path |-> JStr("/"),
          is_local |-> JBool(FALSE),
          script |-> JStr(script)])

NewKeybinding(key, action) == JObj([key |-> JStr(key), action |-> JStr(action)])

Vec3Json(x, y, z) == JObj([x |-> JNum(x), y |-> JNum(y), z |-> JNum(z)])

\* the largest number of keybindings a 1.0 document carries
MaxKeybindings == 2

OldKeybindingPool ==
    <<OldKeybinding("SHIFT+A", "first", "print(1)", TRUE),
      OldKeybinding("a", "second", "print(2)", FALSE),
      OldKeybinding("ESCAPE", "third", "", TRUE),
      OldKeybinding("A", "first", "print(1)", TRUE)>>

\* the keybinding arrays of 1.0 documents: every length up to the bound
OldKeybindingArrays ==
    {JArr(SubSeq(OldKeybindingPool, 1, n)) : n \in 0..MaxKeybindings}
    \cup {JArr(SubSeq(OldKeybindingPool, 2, 1 + n)) : n \in 1..MaxKeybindings}

NewKeybindingArrays ==
    {JArr(<<NewKeybinding("a", "act")>>),
     JArr(<<NewKeybinding("ESC", "profile.keybind.0"),
            NewKeybinding("SHIFT+A", "nowhere")>>)}

ActionArrays ==
    {JArr(<<ActionJson("act", "print(0)")>>),
     JArr(<<ActionJson("profile.keybind.0", "old()"),
            ActionJson("profile.keybind.7", "older()")>>)}

\* the values each optional section of a document takes
SectionSamples ==
    [modules |->
        {JArr(<<JObj([name |-> Str("base"),
                      loadedInstruction |-> Str("yes()"),
                      notLoadedInstruction |-> Str("no()")])>>),
         JArr(<<JObj([name |-> Str("sync")]),
                JObj([name |-> Str("base"), loadedInstruction |-> Str("yes()")])>>)},
     meta |->
        {JObj(EmptyObj),
         JObj([name |-> Str("Default"), license |-> Str("MIT")]),
         JObj([name |-> Str("n"), version |-> Str("1"), description |-> Str("d"),
               author |-> Str("me"), url |-> Str("u"), license |-> Str("l")])},
     assets |->
        {JArr(<<Str("a")>>),
         JArr(<<Str("b"), Str("a")>>),
         JArr(<<Str("a"), Str("b"), Str("a")>>),
         JArr(<<Str("c"), Str("c")>>)},
     properties |->
        {JArr(<<JObj([type |-> Str("setPropertyValue"), name |-> Str("Scene.*.x"),
                      value |-> Str("1")])>>),
         JArr(<<JObj([type |-> Str("setPropertyValueSingle"),
                      name |-> Str("Root.Child.P1"), value |-> Str("true")])>>)},
     actions |-> ActionArrays,
     keybindings |-> NewKeybindingArrays,
     time |->
        {JObj([type |-> Str("absolute"), value |-> Str("2021-01-01")]),
         JObj([type |-> Str("relative"), value |-> Str("-1h")])},
     delta_times |-> {JArr(<<JNum(1), JNum(60)>>)},
     camera |->
        {JObj([type |-> Str("navState"), anchor |-> Str("Earth"),
               frame |-> Str(""), position |-> Vec3Json(1, 2, 3)]),
         JObj([type |-> Str("navState"), anchor |-> Str("Earth"),
               aim |-> Str("Moon"), frame |-> Str("Root"),
               position |-> Vec3Json(1, 2, 3), up |-> Vec3Json(0, 0, 1),
               yaw |-> JNum(0), pitch |-> JNum(5)]),
         JObj([type |-> Str("goToGeo"), anchor |-> Str("Earth"),
               latitude |-> JNum(58), longitude |-> JNum(16)]),
         JObj([type |-> Str("goToGeo"), anchor |-> Str("Earth"),
               latitude |-> JNum(58), longitude |-> JNum(16),
               altitude |-> JNum(1000)])},
     mark_nodes |-> {JArr(<<Str("Earth"), Str("Moon")>>)},
     additional_scripts |-> {JArr(<<Str("f()"), Str("g()")>>)}]

\* one value of every section, for a document with all sections
FullMembers ==
    [k \in DOMAIN SectionSamples |-> CHOOSE v \in SectionSamples[k] : TRUE]

DocVersions == {<<0, 9>>, <<1, 0>>, <<1, 1>>, <<1, 2>>, <<2, 0>>}

\* documents of the current version: one section each, and all sections
SectionDocs ==
    {JObj([version |-> VersionJson(1, 1)])}
    \cup {JObj(Put([version |-> VersionJson(1, 1)], k, v)) :
            <<k, v>> \in UNION {{<<k, v>> : v \in SectionSamples[k]} :
                                  k \in DOMAIN SectionSamples}}
    \cup {JObj(Put(FullMembers, "version", VersionJson(1, 1)))}

\* documents of every version with and without keybindings (as 1.0
\* and as 1.1 write them) and actions
WithOpt(o, k, vs) == {o} \cup {Put(o, k, v) : v \in vs}

VersionDocs ==
    {JObj(d) :
        d \in UNION {UNION {WithOpt(o, "actions", ActionArrays) :
                            o \in WithOpt([version |-> VersionJson(v[1], v[2])],
                                          "keybindings",
                                          OldKeybindingArrays \cup NewKeybindingArrays)} :
                     v \in DocVersions}}

\* a 1.0 document with other sections beside its keybindings
OldFullDoc ==
    JObj(Put(Put(FullMembers, "version", VersionJson(1, 0)),
             "keybindings", JArr(SubSeq(OldKeybindingPool, 1, 2))))

\* texts that the constructor rejects
BadDocs ==
    {[t |-> "invalid"],
     JObj(EmptyObj),
     JArr(<<>>),
     JObj([version |-> JObj([major |-> JNum(1)])]),
     JObj([version |-> VersionJson(1, 1), camera |-> JObj([type |-> Str("orbit")])]),
     JObj([version |-> VersionJson(1, 0),
           keybindings |-> JArr(<<JObj([key |-> Str("A")])>>)])}

\* a document of the current version with an object in every section
ExtraBase ==
    JObj([version |-> VersionJson(1, 1),
          modules |-> JArr(<<JObj([name |-> Str("base")])>>),
          meta |-> JObj([name |-> Str("Default")]),
          properties |-> JArr(<<JObj([type |-> Str("setPropertyValue"),
                                      name |-> Str("Scene.*.x"),
                                      value |-> Str("1")])>>),
          actions |-> JArr(<<ActionJson("act", "print(0)")>>),
          keybindings |-> JArr(<<NewKeybinding("a", "act")>>),
          time |-> JObj([type |-> Str("absolute"), value |-> Str("2021-01-01")]),
          camera |-> JObj([type |-> Str("navState"), anchor |-> Str("Earth"),
                           frame |-> Str("Root"), position |-> Vec3Json(1, 2, 3),
                           up |-> Vec3Json(0, 0, 1)])])

\* the same document with a goToGeo camera
ExtraBaseGeo ==
    [ExtraBase EXCEPT !.o["camera"] =
        JObj([type |-> Str("goToGeo"), anchor |-> Str("Earth"),
              latitude |-> JNum(58), longitude |-> JNum(16)])]

\* the members o with a key no section knows
Extra(o) == Put(o, "extra", Str("x"))

\* for every object of a document: the document with an unknown key in that
\* object, the document without it, and the prefix checkExtraKeys is called
\* with for the object ("" for the top-level object)
ExtraCases ==
    {[prefix |-> "", base |-> ExtraBase,
      doc |-> [ExtraBase EXCEPT !.o = Extra(@)]],
     [prefix |-> "version", base |-> ExtraBase,
      doc |-> [ExtraBase EXCEPT !.o["version"].o = Extra(@)]],
     [prefix |-> "module", base |-> ExtraBase,
      doc |-> [ExtraBase EXCEPT !.o["modules"].a[1].o = Extra(@)]],
     [prefix |-> "meta", base |-> ExtraBase,
      doc |-> [ExtraBase EXCEPT !.o["meta"].o = Extra(@)]],
     [prefix |-> "property", base |-> ExtraBase,
      doc |-> [ExtraBase EXCEPT !.o["properties"].a[1].o = Extra(@)]],
     [prefix |-> "action", base |-> ExtraBase,
      doc |-> [ExtraBase EXCEPT !.o["actions"].a[1].o = Extra(@)]],
     [prefix |-> "keybinding", base |-> ExtraBase,
      doc |-> [ExtraBase EXCEPT !.o["keybindings"].a[1].o = Extra(@)]],
     [prefix |-> "time", base |-> ExtraBase,
      doc |-> [ExtraBase EXCEPT !.o["time"].o = Extra(@)]],
     [prefix |-> "camera", base |-> ExtraBase,
      doc |-> [ExtraBase EXCEPT !.o["camera"].o = Extra(@)]],
     [prefix |-> "camera.position", base |-> ExtraBase,
      doc |-> [ExtraBase EXCEPT !.o["camera"].o["position"].o = Extra(@)]],
     [prefix |-> "camera.up", base |-> ExtraBase,
      doc |-> [ExtraBase EXCEPT !.o["camera"].o["up"].o = Extra(@)]],
     [prefix |-> "camera", base |-> ExtraBaseGeo,
      doc |-> [ExtraBaseGeo EXCEPT !.o["camera"].o = Extra(@)]]}

ExtraDocs == {e.doc : e \in ExtraCases} \cup {e.base : e \in ExtraCases}

\* the members o without key k
Drop(o, k) == [y \in DOMAIN o \ {k} |-> o[y]]

\* documents that lack the version, or the anchor of a navState camera
MissingDocs ==
    {JObj(Drop(ExtraBase.o, "version")),
     JObj([assets |-> JArr(<<Str("a")>>)]),
     JObj([keybindings |-> JArr(SubSeq(OldKeybindingPool, 1, 1))]),
     [ExtraBase EXCEPT !.o["camera"].o = Drop(@, "anchor")],
     JObj([version |-> VersionJson(1, 0),
           camera |-> JObj([type |-> Str("navState"), frame |-> Str(""),
                            position |-> Vec3Json(1, 2, 3)])]),
     JObj([version |-> VersionJson(1, 1),
           camera |-> JObj([type |-> Str("navState"), aim |-> Str("Moon"),
                            extra |-> Str("x")])])}

\* documents whose camera has a discriminator of neither variant, or none
UnknownCameraDocs ==
    {[ExtraBase EXCEPT !.o["camera"].o = Drop(@, "type")],
     [ExtraBase EXCEPT !.o["camera"].o["type"] = Str("NavState")],
     [ExtraBase EXCEPT !.o["camera"].o["type"] = JNum(1)],
     [ExtraBaseGeo EXCEPT !.o["camera"].o["type"] = Str("")],
     [ExtraBase EXCEPT !.o["camera"] = JNull],
     JObj([version |-> VersionJson(1, 0), camera |-> JObj(EmptyObj)])}

\* a 1.0 document with two keybindings and every other section valid
OldBase ==
    [ExtraBase EXCEPT !.o = Drop(Put(Put(@, "version", VersionJson(1, 0)),
                                     "keybindings",
                                     JArr(SubSeq(OldKeybindingPool, 1, 2))),
                                 "actions")]

\* documents with one section that violates the schema, all others valid:
\* a required field missing, a field of the wrong kind, an unknown enum
\* value, a malformed keybinding in a 1.0 document
SchemaViolations ==
    [missing |->
        {[ExtraBase EXCEPT !.o["version"].o = Drop(@, "minor")],
         [ExtraBase EXCEPT !.o["modules"].a[1].o = Drop(@, "name")],
         [ExtraBase EXCEPT !.o["properties"].a[1].o = Drop(@, "value")],
         [ExtraBase EXCEPT !.o["actions"].a[1].o = Drop(@, "script")],
         [ExtraBase EXCEPT !.o["keybindings"].a[1].o = Drop(@, "action")],
         [ExtraBase EXCEPT !.o["time"].o = Drop(@, "type")],
         [ExtraBase EXCEPT !.o["camera"].o = Drop(@, "position")],
         [ExtraBase EXCEPT !.o["camera"].o["up"].o = Drop(@, "z")],
         [ExtraBaseGeo EXCEPT !.o["camera"].o = Drop(@, "latitude")]},
     kind |->
        {[ExtraBase EXCEPT !.o["version"] = Str("1.1")],
         [ExtraBase EXCEPT !.o["version"].o["major"] = Str("1")],
         [ExtraBase EXCEPT !.o["modules"] = JObj(EmptyObj)],
         [ExtraBase EXCEPT !.o["modules"].a[1].o["name"] = JNum(1)],
         [ExtraBase EXCEPT !.o["meta"] = Str("Default")],
         [ExtraBase EXCEPT !.o["meta"] = JArr(<<Str("Default")>>)],
         [ExtraBase EXCEPT !.o["meta"].o["name"] = JNum(1)],
         [ExtraBase EXCEPT !.o = Put(@, "assets", JArr(<<JNum(1)>>))],
         [ExtraBase EXCEPT !.o = Put(@, "assets", Str("a"))],
         [ExtraBase EXCEPT !.o["properties"].a[1].o["type"] = JNum(0)],
         [ExtraBase EXCEPT !.o["actions"].a[1].o["is_local"] = Str("no")],
         [ExtraBase EXCEPT !.o["keybindings"].a[1].o["action"] = JNull],
         [ExtraBase EXCEPT !.o["time"] = Str("2021-01-01")],
         [ExtraBase EXCEPT !.o["time"].o["value"] = JNum(2021)],
         [ExtraBase EXCEPT !.o = Put(@, "delta_times", JArr(<<Str("1")>>))],
         [ExtraBase EXCEPT !.o["camera"] = Str("navState")],
         [ExtraBase EXCEPT !.o["camera"].o["position"] = Str("1,2,3")],
         [ExtraBase EXCEPT !.o["camera"].o["position"].o["x"] = Str("1")],
         [ExtraBaseGeo EXCEPT !.o["camera"].o["longitude"] = Str("16")],
         [ExtraBase EXCEPT !.o = Put(@, "mark_nodes", JObj(EmptyObj))],
         [ExtraBase EXCEPT !.o = Put(@, "additional_scripts", JArr(<<JBool(TRUE)>>))]},
     enum |->
        {[ExtraBase EXCEPT !.o["properties"].a[1].o["type"] = Str("setValue")],
         [ExtraBase EXCEPT !.o["time"].o["type"] = Str("Absolute")]},
     keybinding |->
        {[OldBase EXCEPT !.o["keybindings"].a[2].o = Drop(@, "script")],
         [OldBase EXCEPT !.o["keybindings"].a[2].o["is_local"] = Str("yes")],
         [OldBase EXCEPT !.o["keybindings"].a[1] = Str("A")],
         [OldBase EXCEPT !.o["keybindings"] = JObj(EmptyObj)]}]

ViolationDocs == UNION {SchemaViolations[k] : k \in DOMAIN SchemaViolations}

Docs ==
    SectionDocs \cup VersionDocs \cup {OldFullDoc} \cup BadDocs \cup ExtraDocs
        \cup MissingDocs \cup UnknownCameraDocs \cup ViolationDocs \cup {OldBase}

(***************************************************************************)
(* Inputs: Profiles built in memory, asset paths, live sessions            *)
(***************************************************************************)
\* Profile is an aggregate with public members: a caller builds one from a
\* default-constructed Profile by assigning members
BuiltProfiles ==
    {[DefaultProfile EXCEPT !.version = v, !.keybindings = k, !.camera = c,
                            !.meta = m] :
        v \in {CurrentVersion, [major |-> 1, minor |-> 0]},
        k \in {<<>>, <<[key |-> KeyWithModifier("Key::A", "None"),
                        action |-> "act"]>>},
        c \in {None, Some([variant |-> "CameraGoToGeo", anchor |-> "Earth",
                           latitude |-> 58, longitude |-> 16,
                           altitude |-> None])},
        m \in {None, Some([name |-> None, version |-> None, description |-> None,
                           author |-> None, url |-> None, license |-> None])}}

AssetPaths == {"a", "b"}

LiveProperty(id, chg) ==
    [id |-> id, changed |-> id \in chg, value |-> "v(" \o id \o ")"]

\* the live property graph with the properties in chg changed
LiveRoot(chg) ==
    [propertySubOwners |-> <<
        [propertySubOwners |-> <<
            [propertySubOwners |-> <<>>,
             properties |-> <<LiveProperty("Root.A.G.P", chg)>>]>>,
         properties |-> <<LiveProperty("Root.A.P", chg),
                          LiveProperty("Root.A.Q", chg)>>],
        [propertySubOwners |-> <<>>,
         properties |-> <<LiveProperty("Root.B.P", chg)>>]>>,
     properties |-> <<LiveProperty("Root.P", chg)>>]

NavStates ==
    <<[anchor |-> "Earth", aim |-> Some(""), referenceFrame |-> "Root",
       position |-> [x |-> 1, y |-> 2, z |-> 3], up |-> None,
       yaw |-> Some(0), pitch |-> Some(0)],
      [anchor |-> "Moon", aim |-> Some("Earth"), referenceFrame |-> "Moon",
       position |-> [x |-> 7, y |-> 8, z |-> 9],
       up |-> Some([x |-> 0, y |-> 1, z |-> 0]),
       yaw |-> Some(2), pitch |-> Some(4)]>>

\* what a capture reads: the graph, the time, the navigation state and
\* the delta time steps of the time manager
LiveSessions ==
    {[rootOwner |-> LiveRoot({}), currentTime |-> "2021-01-01T00:00:00",
      navState |-> NavStates[1], deltaTimeSteps |-> <<>>],
     [rootOwner |-> LiveRoot({"Root.P", "Root.A.P"}),
      currentTime |-> "2021-06-01T12:00:00",
      navState |-> NavStates[2], deltaTimeSteps |-> <<1, 60>>],
     [rootOwner |-> LiveRoot({"Root.A.G.P", "Root.A.Q", "Root.B.P"}),
      currentTime |-> "2021-01-01T00:00:00",
      navState |-> NavStates[1], deltaTimeSteps |-> <<1, 60>>],
     [rootOwner |-> LiveRoot({"Root.P", "Root.A.P", "Root.A.Q", "Root.A.G.P",
                              "Root.B.P"}),
      currentTime |-> "2021-06-01T12:00:00",
      navState |-> NavStates[2], deltaTimeSteps |-> <<>>]}

\* captures stop once the properties list would grow beyond this length
MaxProperties == 6

(***************************************************************************)
(* The state machine.  profile is the Profile object; op is the last       *)
(* operation with its arguments, pre the Profile before it and result      *)
(* what it returned or threw.  text is the output of the last serialize.   *)
(***************************************************************************)
NoText == [t |-> "none"]

Init ==
    /\ profile \in BuiltProfiles
    /\ op = [name |-> "init"]
    /\ pre = profile
    /\ result = Returned
    /\ text = NoText

\* the common part of the two constructor actions
Constructed(r, content, name) ==
    /\ profile' = IF r.ok THEN r.val ELSE profile
    /\ op' = [name |-> name, content |-> content]
    /\ pre' = profile
    /\ result' = IF r.ok THEN [ok |-> TRUE, log |-> r.log, steps |-> r.steps]
                 ELSE r
    /\ text' = NoText

\* Profile::Profile(content) on a document
Construct(content) ==
    /\ op.name = "init"
    /\ profile = DefaultProfile
    /\ Constructed(ProfileFromContent(content), content, "construct")

\* Profile::Profile(content) on the text serialize has just returned
Reload ==
    /\ op.name = "serialize"
    /\ Constructed(ProfileFromContent(text), text, "reload")

Serialize ==
    /\ op.name # "serialize"
    /\ profile' = profile
    /\ op' = [name |-> "serialize"]
    /\ pre' = profile
    /\ result' = Returned
    /\ text' = serialize(profile)

AddAsset(path) ==
    LET r == addAsset(profile, path)
    IN  /\ profile' = r.profile
        /\ op' = [name |-> "addAsset", path |-> path]
        /\ pre' = profile
        /\ result' = r.result
        /\ text' = NoText

RemoveAsset(path) ==
    LET r == removeAsset(profile, path)
    IN  /\ profile' = r.profile
        /\ op' = [name |-> "removeAsset", path |-> path]
        /\ pre' = profile
        /\ result' = r.result
        /\ text' = NoText

\* the assignment profile.ignoreUpdates = b of the code that loads assets
SetIgnoreUpdates(b) ==
    /\ profile.ignoreUpdates # b
    /\ profile' = [profile EXCEPT !.ignoreUpdates = b]
    /\ op' = [name |-> "setIgnoreUpdates", value |-> b]
    /\ pre' = profile
    /\ result' = Returned
    /\ text' = NoText

SaveCurrentSettingsToProfile(s) ==
    /\ Len(profile.properties) + Len(changedProperties(s.rootOwner))
        <= MaxProperties
    /\ profile' = saveCurrentSettingsToProfile(profile, s.rootOwner,
                      s.currentTime, s.navState, s.deltaTimeSteps)
    /\ op' = [name |-> "saveCurrentSettingsToProfile", session |-> s]
    /\ pre' = profile
    /\ result' = Returned
    /\ text' = NoText

\* convertToSeparatedAssets(filePre, p) on the Profile; the files it
\* writes are kept in result
ConvertToSeparatedAssets(ub) ==
    /\ profile' = profile
    /\ op' = [name |-> "convertToSeparatedAssets"]
    /\ pre' = profile
    /\ result' = convertToSeparatedAssets(profile, ub)
    /\ text' = NoText

Next ==
    \/ \E content \in Docs : Construct(content)
    \/ Reload
    \/ Serialize
    \/ \E path \in AssetPaths : AddAsset(path)
    \/ \E path \in AssetPaths : RemoveAsset(path)
    \/ \E b \in BOOLEAN : SetIgnoreUpdates(b)
    \/ \E s \in LiveSessions : SaveCurrentSettingsToProfile(s)
    \/ \E ub \in UBOutcomes : ConvertToSeparatedAssets(ub)

Spec == Init /\ [][Next]_vars

(***************************************************************************)
(* Properties                                                              *)
(***************************************************************************)
Range(s) == {s[i] : i \in 1..Len(s)}

NoDuplicates(s) == \A i, j \in 1..Len(s) : s[i] = s[j] => i = j

Count(s, x) == Cardinality({i \in 1..Len(s) : s[i] = x})

\* the members of a Profile that serialize writes: all but ignoreUpdates
Persisted(p) == [k \in DOMAIN p \ {"ignoreUpdates"} |-> p[k]]

\* the version a document declares, for a document that was decoded
Declared(doc) ==
    [major |-> doc.o["version"].o["major"].n,
     minor |-> doc.o["version"].o["minor"].n]

VersionBelow(v, w) ==
    v.major < w.major \/ (v.major = w.major /\ v.minor < w.minor)

Decoded == op.name \in {"construct", "reload"} /\ result.ok

\* C1: decoding the text that serialize produced for a Profile p succeeds
\* and gives a Profile equal to p in every member that is written, lists in
\* the same order.
C1_RoundTrip ==
    op.name = "reload" => result.ok /\ Persisted(profile) = Persisted(pre)

\* C2: a successful decode of a document that declares a version below the
\* current one (also 1.0 without keybindings, also below 1.0) gives a
\* Profile whose version is the current version.
C2_DecodedVersionIsCurrent ==
    (Decoded /\ VersionBelow(Declared(op.content), CurrentVersion))
        => profile.version = CurrentVersion

\* the identifiers the migration gives to the keybindings, in order
ExpectedIdentifiers ==
    <<"profile.keybind.0", "profile.keybind.1", "profile.keybind.2",
      "profile.keybind.3">>

Migrated10 ==
    /\ op.name = "construct"
    /\ result.ok
    /\ Declared(op.content) = [major |-> 1, minor |-> 0]
    /\ Has(op.content, "keybindings")

\* C3: a decoded 1.0 document with N keybindings has N actions named
\* profile.keybind.0 .. profile.keybind.N-1 in the order of the keybindings
\* and N keybindings, the i-th with the i-th original key and the i-th
\* identifier; each keybinding names exactly one action and the
\* identifiers are pairwise distinct.
C3_Migration10to11 ==
    Migrated10 =>
        LET old == op.content.o["keybindings"].a
            N == Len(old)
        IN  /\ Len(profile.actions) = N
            /\ Len(profile.keybindings) = N
            /\ \A i \in 1..N :
                /\ profile.actions[i].identifier = ExpectedIdentifiers[i]
                /\ profile.actions[i].script = old[i].o["script"].s
                /\ profile.keybindings[i].action = ExpectedIdentifiers[i]
                /\ profile.keybindings[i].key = KeyMapping[old[i].o["key"].s]
                /\ Cardinality({k \in 1..N : profile.actions[k].identifier
                                    = profile.keybindings[i].action}) = 1
            /\ \A i, k \in 1..N :
                profile.actions[i].identifier = profile.actions[k].identifier
                    => i = k

C3_Witness ==
    Migrated10 /\ Len(profile.actions) = MaxKeybindings
        /\ profile.keybindings[1].key # profile.keybindings[2].key

\* the actions and keybindings of Profile p are those the document writes
AsWritten(doc, p) ==
    /\ Len(p.actions) = IF Has(doc, "actions") THEN Len(doc.o["actions"].a) ELSE 0
    /\ \A i \in 1..Len(p.actions) :
        /\ p.actions[i].identifier = doc.o["actions"].a[i].o["identifier"].s
        /\ p.actions[i].script = doc.o["actions"].a[i].o["script"].s
    /\ Len(p.keybindings) =
        IF Has(doc, "keybindings") THEN Len(doc.o["keybindings"].a) ELSE 0
    /\ \A i \in 1..Len(p.keybindings) :
        /\ p.keybindings[i].action = doc.o["keybindings"].a[i].o["action"].s
        /\ p.keybindings[i].key = KeyMapping[doc.o["keybindings"].a[i].o["key"].s]

\* the result r of a decode is the Profile p
Redecoded(r, p) == r.ok /\ r.val = p

\* C4: for a 1.0 document d that decodes, decoding the serialized decode of
\* d gives the decode of d again; decoding a document of the current
\* version runs no conversion and takes its actions and keybindings as
\* written.
C4_MigrationIdempotent ==
    /\ (op.name = "construct" /\ result.ok
            /\ Declared(op.content) = [major |-> 1, minor |-> 0])
        => Redecoded(ProfileFromContent(serialize(profile)), profile)
    /\ (Decoded /\ Declared(op.content) = CurrentVersion)
        => result.steps = 0 /\ AsWritten(op.content, profile)

C4_Witness ==
    /\ Migrated10
    /\ result.steps = 1
    /\ Len(profile.keybindings) = 2
    /\ serialize(profile) # op.content

C4_WitnessCurrent ==
    /\ Decoded
    /\ Declared(op.content) = CurrentVersion
    /\ Len(profile.keybindings) = 2
    /\ Len(profile.actions) = 2

\* C5 as claimed: in every state reached from a constructed Profile (default
\* or decoded) the assets list has no duplicate entries.
C5_NoDuplicateAssets == NoDuplicates(profile.assets)

\* C5 as amended: a Profile built in memory starts without duplicates, and
\* no operation on an existing Profile introduces one: when the assets had
\* no duplicates before addAsset, removeAsset (or any other call on the
\* object), they have none after it.  The constructor takes the assets
\* array of the document as written, duplicates included.
C5_NoDuplicatesPreserved ==
    /\ op.name = "init" => NoDuplicates(profile.assets)
    /\ (op.name \notin {"init", "construct"} /\ NoDuplicates(pre.assets))
        => NoDuplicates(profile.assets)
    /\ (op.name = "construct" /\ result.ok /\ Has(op.content, "assets"))
        => \A x \in Range(profile.assets) :
              Count(profile.assets, x) = Count(op.content.o["assets"].a, JStr(x))

C5_Witness ==
    /\ op.name = "addAsset"
    /\ NoDuplicates(pre.assets)
    /\ Len(pre.assets) >= 2
    /\ op.path \in Range(pre.assets)
    /\ ~pre.ignoreUpdates

\* C6: with ignoreUpdates false, addAsset(path) appends path as the last
\* entry when the list does not hold it and leaves the list unchanged when
\* it does; a second addAsset(path) changes nothing, so two calls leave one
\* entry more than before the first when path was new.
C6_AddAsset ==
    (op.name = "addAsset" /\ ~pre.ignoreUpdates) =>
        /\ result = Returned
        /\ op.path \notin Range(pre.assets)
            => /\ Len(profile.assets) = Len(pre.assets) + 1
               /\ profile.assets[Len(profile.assets)] = op.path
               /\ \A i \in 1..Len(pre.assets) : profile.assets[i] = pre.assets[i]
        /\ op.path \in Range(pre.assets) => profile.assets = pre.assets
        /\ Persisted([profile EXCEPT !.assets = <<>>])
             = Persisted([pre EXCEPT !.assets = <<>>])
        /\ addAsset(profile, op.path).profile = profile
        /\ Count(profile.assets, op.path) = Count(pre.assets, op.path)
             + (IF op.path \in Range(pre.assets) THEN 0 ELSE 1)

C6_Witness ==
    /\ op.name = "addAsset"
    /\ ~pre.ignoreUpdates
    /\ op.path \notin Range(pre.assets)
    /\ Len(pre.assets) >= 1

\* the sequence s without its i-th entry
Without(s, i) == SubSeq(s, 1, i - 1) \o SubSeq(s, i + 1, Len(s))

Removed == op.name = "removeAsset" /\ ~pre.ignoreUpdates /\ result.ok

\* the first entry equal to path is gone and the others keep their order
FirstRemoved ==
    \E i \in 1..Len(pre.assets) :
        /\ pre.assets[i] = op.path
        /\ \A k \in 1..(i - 1) : pre.assets[k] # op.path
        /\ profile.assets = Without(pre.assets, i)

\* C7 as claimed: with ignoreUpdates false, a removeAsset(path) that succeeds
\* leaves one entry less, removes the first entry equal to path, keeps the
\* order of the others, and leaves no entry equal to path.
C7_RemoveAsset ==
    Removed =>
        /\ Len(profile.assets) = Len(pre.assets) - 1
        /\ FirstRemoved
        /\ op.path \notin Range(profile.assets)

\* C7 as amended: ... leaves one entry less, removes the first entry equal
\* to path and keeps the order of the others; no entry equal to path is left
\* when path was in the list once, and the later entries equal to path stay
\* when the list held it more than once.
C7_RemoveFirst ==
    Removed =>
        /\ Len(profile.assets) = Len(pre.assets) - 1
        /\ FirstRemoved
        /\ Count(profile.assets, op.path) = Count(pre.assets, op.path) - 1
        /\ Count(pre.assets, op.path) = 1 => op.path \notin Range(profile.assets)
        /\ Persisted([profile EXCEPT !.assets = <<>>])
             = Persisted([pre EXCEPT !.assets = <<>>])

C7_Witness ==
    /\ Removed
    /\ Len(pre.assets) >= 3
    /\ Count(pre.assets, op.path) = 2
    /\ pre.assets[Len(pre.assets)] = op.path

\* C8: with ignoreUpdates false, removeAsset(path) for a path that is not in
\* the assets throws, and the Profile is exactly as before the call.
C8_RemoveMissing ==
    (op.name = "removeAsset" /\ ~pre.ignoreUpdates
        /\ op.path \notin Range(pre.assets))
    => /\ ~result.ok
       /\ result.err.type = "RuntimeError"
       /\ profile = pre

C8_Witness ==
    /\ op.name = "removeAsset"
    /\ ~pre.ignoreUpdates
    /\ op.path \notin Range(pre.assets)
    /\ pre.assets # <<>>
    /\ ~result.ok

\* C9: while ignoreUpdates is true, every addAsset and removeAsset call
\* returns without error and leaves the assets and every other member of
\* the Profile unchanged.
C9_IgnoreUpdates ==
    (op.name \in {"addAsset", "removeAsset"} /\ pre.ignoreUpdates)
    => result = Returned /\ profile = pre

C9_Witness ==
    /\ op.name = "removeAsset"
    /\ pre.ignoreUpdates
    /\ op.path \notin Range(pre.assets)
    /\ result = Returned

C9_WitnessAdd ==
    /\ op.name = "addAsset"
    /\ pre.ignoreUpdates
    /\ op.path \notin Range(pre.assets)

\* the properties of the live graph below po, each with the path of
\* sub-owner indices that leads to its owner and its index in the owner
RECURSIVE LiveProperties(_, _)
LiveProperties(po, path) ==
    {[path |-> path, index |-> i, prop |-> po.properties[i]] :
        i \in 1..Len(po.properties)}
    \cup UNION {LiveProperties(po.propertySubOwners[k], Append(path, k)) :
                  k \in 1..Len(po.propertySubOwners)}

IsPrefix(p, q) == Len(p) <= Len(q) /\ SubSeq(q, 1, Len(p)) = p

\* a is emitted before b: a lies in a sub-owner below b's owner, or in an
\* earlier sub-owner, or earlier among the properties of the same owner
EmittedBefore(a, b) ==
    IF a.path = b.path THEN a.index < b.index
    ELSE IF IsPrefix(b.path, a.path) THEN TRUE
    ELSE IF IsPrefix(a.path, b.path) THEN FALSE
    ELSE LET k == CHOOSE k \in 1..Len(a.path) :
                    /\ a.path[k] # b.path[k]
                    /\ \A m \in 1..(k - 1) : a.path[m] = b.path[m]
         IN  a.path[k] < b.path[k]

Captured == op.name = "saveCurrentSettingsToProfile"

\* the entries the last capture added to the properties
NewProperties ==
    SubSeq(profile.properties, Len(pre.properties) + 1, Len(profile.properties))

\* C10: a capture emits one entry for exactly the live properties whose
\* changed flag is set, each with set type SetPropertyValueSingle, the
\* changed properties below a node's sub-owners (in sub-owner order) before
\* the node's own; an unchanged property is never emitted.
C10_CaptureOrder ==
    Captured =>
        LET live == LiveProperties(op.session.rootOwner, <<>>)
            changed == {l \in live : l.prop.changed}
            new == NewProperties
            At(i) == CHOOSE l \in live : l.prop.id = new[i].name
        IN  /\ Len(new) = Cardinality(changed)
            /\ {new[i].name : i \in 1..Len(new)} = {l.prop.id : l \in changed}
            /\ \A i \in 1..Len(new) :
                /\ new[i].setType = "SetPropertyValueSingle"
                /\ new[i].value = At(i).prop.value
            /\ \A i, j \in 1..Len(new) : i < j => EmittedBefore(At(i), At(j))

C10_Witness ==
    /\ Captured
    /\ Len(NewProperties) = 3
    /\ \E l \in LiveProperties(op.session.rootOwner, <<>>) : ~l.prop.changed
    /\ NewProperties[1].name = "Root.A.G.P"

C10_WitnessRoot ==
    /\ Captured
    /\ Len(NewProperties) = 2
    /\ NewProperties[1].name = "Root.A.P"
    /\ NewProperties[2].name = "Root.P"


\* the last operation decoded the document with an unknown key of case e
DecodedExtra(e) == op.name = "construct" /\ op.content = e.doc

\* C11: a valid document with an unknown key in any of its objects (top
\* level, version, module, meta, property, action, keybinding, time, camera,
\* camera.position, camera.up) decodes to the Profile of the document
\* without the key, and a diagnostic that names the key is logged.
C11_UnknownFieldTolerance ==
    \A e \in ExtraCases :
        DecodedExtra(e) =>
            /\ result.ok
            /\ Redecoded(ProfileFromContent(e.base), profile)
            /\ \E l \in result.log : l[1] = "extra"

\* the last operation was the constructor and it threw a ParsingError of
\* severity Error
DecodeFailed ==
    /\ op.name \in {"construct", "reload"}
    /\ ~result.ok
    /\ result.err.type = "ParsingError"
    /\ result.err.severity = "Error"

\* the document lacks the anchor of its navState camera and is valid without
\* the camera section
LacksAnchor(doc) ==
    /\ Has(doc, "camera")
    /\ Get(doc.o["camera"], "type") = JStr(CameraNavStateType)
    /\ ~Has(doc.o["camera"], "anchor")
    /\ ProfileFromContent(JObj(Drop(doc.o, "camera"))).ok

\* C12: decoding an input without the top-level version fails with a
\* ParsingError of severity Error, whose message names version when the
\* input is a JSON object; decoding an otherwise valid document whose
\* navState camera lacks the anchor fails with a ParsingError of severity
\* Error whose message names camera.anchor as missing.
C12_RequiredFields ==
    /\ (op.name = "construct" /\ ~Has(op.content, "version"))
        => /\ DecodeFailed
           /\ op.content.t = "object" => "version" \in Range(result.err.msg)
    /\ (op.name = "construct" /\ LacksAnchor(op.content))
        => /\ DecodeFailed
           /\ result.err.msg = <<"'", "camera", ".", "anchor", "' field is missing">>

C12_Witness ==
    /\ op.name = "construct"
    /\ LacksAnchor(op.content)
    /\ Has(op.content, "modules")
    /\ ~result.ok

C12_WitnessVersion ==
    /\ op.name = "construct"
    /\ ~Has(op.content, "version")
    /\ Has(op.content, "camera")
    /\ ~result.ok


\* the discriminator of the camera section of a document, null when the
\* camera has none
CameraTypeOf(doc) == Get(doc.o["camera"], "type")

\* the document has a camera object (or null) and is valid without it
HasCamera(doc) ==
    /\ Has(doc, "camera")
    /\ doc.o["camera"].t \in {"object", "null"}
    /\ ProfileFromContent(JObj(Drop(doc.o, "camera"))).ok

\* C13: decoding a document whose camera has a discriminator that is
\* neither navState nor goToGeo, or has none, fails with "Unknown camera
\* type"; when the discriminator is one of the two and the decode succeeds,
\* the camera holds that variant.
C13_CameraDispatch ==
    op.name = "construct" /\ HasCamera(op.content) =>
        /\ CameraTypeOf(op.content)
                \notin {JStr(CameraNavStateType), JStr(CameraGoToGeoType)}
            => DecodeFailed /\ result.err.msg = <<"Unknown camera type">>
        /\ (result.ok /\ CameraTypeOf(op.content) = JStr(CameraNavStateType))
            => profile.camera.has /\ profile.camera.val.variant = "CameraNavState"
        /\ (result.ok /\ CameraTypeOf(op.content) = JStr(CameraGoToGeoType))
            => profile.camera.has /\ profile.camera.val.variant = "CameraGoToGeo"

C13_Witness ==
    /\ op.name = "construct"
    /\ HasCamera(op.content)
    /\ Has(op.content.o["camera"], "anchor")
    /\ ~Has(op.content.o["camera"], "type")
    /\ ~result.ok

C13_WitnessGeo ==
    /\ op.name = "construct"
    /\ HasCamera(op.content)
    /\ CameraTypeOf(op.content) = JStr(CameraGoToGeoType)
    /\ result.ok


GeneratedAssets == op.name = "convertToSeparatedAssets"

\* the files of section name that the last generation wrote
FilesOf(name) ==
    {result.files[i].lines : i \in {k \in 1..Len(result.files) :
                                      result.files[k].name = name}}

\* the lines of a fragment between its first and its last line
Statements(lines) == SubSeq(lines, 2, Len(lines) - 1)

\* the statements the time fragment has for a Time t
ExpectedTimeStatements(t) ==
    IF t.type = "Relative"
    THEN <<<<"  local now = openspace.time.currentWallTime();">>,
           <<"  local prev = openspace.time.advancedTime(now, \"", t.value, "\");">>,
           <<"  openspace.time.setTime(prev);">>>>
    ELSE <<<<"  openspace.time.setTime(\"", t.value, "\")">>>>

\* C14: the time fragment of a Profile with time {Relative, v} has exactly
\* three statements in the order now, offset of v from now, set; with time
\* {Absolute, v} it has exactly one statement, set time to v; the type alone
\* decides the shape.
C14_TimeFragment ==
    (GeneratedAssets /\ pre.time.has) =>
        /\ \A ub \in UBOutcomes :
            /\ convertToAsset_time(pre, ub).ok
            /\ Statements(convertToAsset_time(pre, ub).lines)
                 = ExpectedTimeStatements(pre.time.val)
            /\ Len(convertToAsset_time(pre, ub).lines)
                 = 2 + (IF pre.time.val.type = "Relative" THEN 3 ELSE 1)
        /\ \A f \in FilesOf("_time") :
            Statements(f) = ExpectedTimeStatements(pre.time.val)

C14_Witness ==
    /\ GeneratedAssets
    /\ pre.time.has
    /\ pre.time.val.type = "Relative"
    /\ FilesOf("_time") # {}

C14_WitnessAbsolute ==
    /\ GeneratedAssets
    /\ pre.time.has
    /\ pre.time.val.type = "Absolute"
    /\ FilesOf("_time") # {}


\* C15: for every Profile that can be constructed or decoded (time absent,
\* camera absent, lists empty included) the generation of every fragment
\* other than modules completes without failure.
C15_GenerationTotal ==
    GeneratedAssets => result.failed \in {"", "_modules"}

\* the sections of convertToSeparatedAssets
SectionNames ==
    {"_meta", "_addedAssets", "_modules", "_actions", "_keybinds", "_time",
     "_deltaTimes", "_markNodes", "_properties", "_camera", "_addedScripts"}

\* the Profile has a module without loadedInstruction or notLoadedInstruction
LacksInstruction(p) ==
    \E i \in 1..Len(p.modules) : ~HasInstructions(p.modules[i])

\* C18: generating the modules fragment of a Profile with a module that
\* lacks loadedInstruction or notLoadedInstruction ends in a reported error
\* for that fragment, and convertToSeparatedAssets still produces the
\* fragment of every other section.
C18_ModulesConstraint ==
    (GeneratedAssets /\ LacksInstruction(pre) /\ pre.time.has) =>
        /\ \A ub \in UBOutcomes :
            /\ ~convertToAsset_modules(pre, ub).ok
            /\ convertToAsset_modules(pre, ub).err # Crash
        /\ \A name \in SectionNames \ {"_modules"} : FilesOf(name) # {}


\* the order in which serialize and the to_json functions assign the members
\* of each kind of object
CanonicalOrder ==
    [top |-> <<"version", "modules", "meta", "assets", "properties", "actions",
               "keybindings", "time", "delta_times", "camera", "mark_nodes",
               "additional_scripts">>,
     version |-> <<"major", "minor">>,
     module |-> <<"name", "loadedInstruction", "notLoadedInstruction">>,
     meta |-> <<"name", "version", "description", "author", "url", "license">>,
     property |-> <<"type", "name", "value">>,
     action |-> <<"identifier", "documentation", "name", "gui_path", "is_local",
                  "script">>,
     keybinding |-> <<"key", "action">>,
     time |-> <<"type", "value">>,
     camera |-> <<"type", "anchor", "aim", "frame", "position", "up", "yaw",
                  "pitch", "latitude", "longitude", "altitude">>,
     vec3 |-> <<"x", "y", "z">>]

\* the objects of array member key of document doc, each with its kind
ObjectsIn(doc, key, kind) ==
    IF Has(doc, key)
    THEN {<<doc.o[key].a[i], kind>> : i \in 1..Len(doc.o[key].a)}
    ELSE {}

\* the object of member key of object j, with its kind
ObjectAt(j, key, kind) ==
    IF Has(j, key) /\ Get(j, key).t = "object" THEN {<<j.o[key], kind>>} ELSE {}

\* every object of a serialized document, with its kind
ObjectsOf(doc) ==
    {<<doc, "top">>}
    \cup ObjectAt(doc, "version", "version")
    \cup ObjectsIn(doc, "modules", "module")
    \cup ObjectAt(doc, "meta", "meta")
    \cup ObjectsIn(doc, "properties", "property")
    \cup ObjectsIn(doc, "actions", "action")
    \cup ObjectsIn(doc, "keybindings", "keybinding")
    \cup ObjectAt(doc, "time", "time")
    \cup ObjectAt(doc, "camera", "camera")
    \cup ObjectAt(Get(doc, "camera"), "position", "vec3")
    \cup ObjectAt(Get(doc, "camera"), "up", "vec3")

\* C16: in the text of serialize the keys of the top-level object and of
\* every section object are in the canonical order of the section (top
\* level: version, modules, meta, assets, ...; action: identifier,
\* documentation, name, gui_path, is_local, script; ...), the same for every
\* Profile.
C16_CanonicalKeyOrder ==
    op.name = "serialize" =>
        \A x \in ObjectsOf(text) :
            dump_keys(x[1]) = KeysIn(x[1].o, CanonicalOrder[x[2]])


\* C17: when one section of a document has a required field missing, a
\* field of the wrong kind or an unknown enum value, or a 1.0 document has a
\* malformed keybinding, the decode fails with a ParsingError of severity
\* Error and gives no Profile, also when every other section is valid.
C17_SchemaViolationFatal ==
    (op.name = "construct" /\ op.content \in ViolationDocs)
        => DecodeFailed /\ profile = pre


\* the last operation decoded a 1.0 document
Decoded10 ==
    /\ op.name = "construct"
    /\ result.ok
    /\ Declared(op.content) = [major |-> 1, minor |-> 0]

\* the members of the tree that the 1.0 -> 1.1 conversion may change
ConvertedKeys == {"keybindings", "actions", "version"}

\* tree t keeps every member of document doc outside ConvertedKeys
LocalChange(doc, t) ==
    /\ DOMAIN t.o \subseteq DOMAIN doc.o \cup ConvertedKeys
    /\ \A k \in DOMAIN doc.o \ ConvertedKeys : k \in DOMAIN t.o /\ t.o[k] = doc.o[k]

\* every field of the i-th old keybinding is in the i-th action or keybinding
\* of tree t
FieldsCarried(doc, t) ==
    LET old == doc.o["keybindings"].a
    IN  \A i \in 1..Len(old) :
            /\ t.o["actions"].a[i].o["documentation"] = old[i].o["documentation"]
            /\ t.o["actions"].a[i].o["name"] = old[i].o["name"]
            /\ t.o["actions"].a[i].o["gui_path"] = old[i].o["gui_path"]
            /\ t.o["actions"].a[i].o["is_local"] = old[i].o["is_local"]
            /\ t.o["actions"].a[i].o["script"] = old[i].o["script"]
            /\ stringToKey(t.o["keybindings"].a[i].o["key"].s).val
                 = stringToKey(old[i].o["key"].s).val

\* the actions that document doc has are among the actions of tree t
ActionsKept(doc, t) ==
    Has(doc, "actions") =>
        Range(doc.o["actions"].a) \subseteq Range(t.o["actions"].a)

\* C19: the 1.0 -> 1.1 conversion changes only the keybindings, actions and
\* version of the tree, carries every field of each old keybinding into the
\* derived action or keybinding, discards nothing of the 1.0 document (an
\* actions entry already present included), and returns the tree unchanged
\* when the document has no keybindings.
C19_MigrationLossless ==
    Decoded10 =>
        /\ LocalChange(op.content, convertVersion10to11(op.content).val)
        /\ Has(op.content, "keybindings")
            => /\ FieldsCarried(op.content, convertVersion10to11(op.content).val)
               /\ ActionsKept(op.content, convertVersion10to11(op.content).val)
        /\ ~Has(op.content, "keybindings")
            => convertVersion10to11(op.content).val = op.content


\* the CameraNavState with the values of navigation state n, and nothing
\* else
NavStateOf(n) ==
    [variant |-> "CameraNavState", anchor |-> n.anchor, aim |-> n.aim,
     referenceFrame |-> n.referenceFrame, position |-> n.position,
     up |-> n.up, yaw |-> n.yaw, pitch |-> n.pitch]

\* C20: after a capture on a Profile in any prior state the version is the
\* current version, the time is {Absolute, currentTime}, the delta times are
\* those of the session, and the camera is the CameraNavState of the given
\* navigation state, in place of a CameraGoToGeo held before: the camera
\* holds one variant only.
C20_CaptureOverwrites ==
    Captured =>
        /\ profile.version = CurrentVersion
        /\ profile.time = Some([type |-> "Absolute",
                                value |-> op.session.currentTime])
        /\ profile.deltaTimes = op.session.deltaTimeSteps
        /\ profile.camera = Some(NavStateOf(op.session.navState))
        /\ DOMAIN profile.camera.val
             \cap {"latitude", "longitude", "altitude"} = {}

C20_Witness ==
    /\ Captured
    /\ pre.camera.has
    /\ pre.camera.val.variant = "CameraGoToGeo"
    /\ pre.version # CurrentVersion
    /\ op.session.deltaTimeSteps # pre.deltaTimes

C20_WitnessTime ==
    /\ Captured
    /\ pre.time.has
    /\ pre.time.val.type = "Relative"


\* the number of changed properties of the live graph of the last capture
ChangedCount ==
    Cardinality({l \in LiveProperties(op.session.rootOwner, <<>>) :
                    l.prop.changed})

\* the Profile after the last capture is called once more on the same
\* session
CapturedAgain ==
    saveCurrentSettingsToProfile(profile, op.session.rootOwner,
        op.session.currentTime, op.session.navState, op.session.deltaTimeSteps)

\* C21: a capture appends: the properties the Profile had stay as an
\* unchanged prefix and the captured entries follow; a second capture on the
\* same live graph with k changed properties leaves 2k captured entries,
\* each changed property twice, and the same time, deltaTimes and camera as
\* the first.
C21_CaptureAppends ==
    Captured =>
        /\ Len(profile.properties) = Len(pre.properties) + ChangedCount
        /\ SubSeq(profile.properties, 1, Len(pre.properties)) = pre.properties
        /\ Len(CapturedAgain.properties) = Len(pre.properties) + 2 * ChangedCount
        /\ CapturedAgain.properties = pre.properties \o NewProperties \o NewProperties
        /\ CapturedAgain.time = profile.time
        /\ CapturedAgain.deltaTimes = profile.deltaTimes
        /\ CapturedAgain.camera = profile.camera

\* the capture before the last one was on the same graph: the Profile
\* holds every changed property twice
C21_Witness ==
    /\ Captured
    /\ ChangedCount >= 2
    /\ Len(pre.properties) > ChangedCount
    /\ SubSeq(pre.properties, Len(pre.properties) - ChangedCount + 1,
              Len(pre.properties)) = NewProperties
    /\ pre.properties[1] \notin Range(NewProperties)


\* the members of a Profile that a capture writes
CapturedMembers == {"version", "properties", "time", "deltaTimes", "camera"}

\* the members of Profile p that a capture does not write
Uncaptured(p) == [k \in DOMAIN p \ CapturedMembers |-> p[k]]

\* C22: a capture leaves modules, meta, assets, actions, keybindings,
\* markNodes, additionalScripts and ignoreUpdates unchanged, and it takes
\* effect whatever the value of ignoreUpdates, which suppresses addAsset and
\* removeAsset only.
C22_CaptureFrame ==
    /\ Captured =>
        /\ DOMAIN Uncaptured(profile)
             = {"modules", "meta", "assets", "actions", "keybindings",
                "markNodes", "additionalScripts", "ignoreUpdates"}
        /\ Uncaptured(profile) = Uncaptured(pre)
        /\ profile.version = CurrentVersion
        /\ profile.time = Some([type |-> "Absolute",
                                value |-> op.session.currentTime])
        /\ profile.deltaTimes = op.session.deltaTimeSteps
        /\ profile.camera.has
        /\ Len(profile.properties) = Len(pre.properties) + ChangedCount
    /\ (op.name \in {"addAsset", "removeAsset"} /\ pre.ignoreUpdates)
        => profile = pre

C22_Witness ==
    /\ Captured
    /\ pre.ignoreUpdates
    /\ pre.assets # <<>>
    /\ pre.keybindings # <<>>
    /\ ChangedCount > 0
    /\ profile.time # pre.time

====
